---- MODULE Spec2Model ----
(***************************************************************************)
(* Model of the loop construct of the GreenZone template engine            *)
(* (include/Node/EachNode.hpp), of the value model it iterates             *)
(* (include/Context/json11.hpp) and of the scope discipline of the parser  *)
(* (include/Parser/Parser.h).                                              *)
(*                                                                         *)
(* Text is modelled as a sequence of one-character strings, so that the    *)
(* regular expressions of EachNode::processFragment can be run character   *)
(* by character.                                                           *)
(***************************************************************************)
EXTENDS Integers, Sequences, FiniteSets, TLC

VARIABLES
    fragment,      \* Fragment::clean() of the open tag handed to processFragment
    nodeState,     \* "constructed", "configured" or "syntax_error"
    syntaxError,   \* text carried by the TemplateSyntaxError, <<>> if none
    m_vars,        \* EachNode::m_vars
    m_container,   \* EachNode::m_container
    m_children,    \* Node::m_children of the loop node
    pc,            \* per render call: position inside EachNode::render
    context,       \* wrapped value of every Context object, by address
    container,     \* per render call: local json11::Json container
    prototype,     \* per render call: local json11::Json::object prototype
    items,         \* per render call: local copy of the container's items
    itemIdx,       \* per render call: position of the range-for
    childIdx,      \* per render call: position inside renderChildren
    sink,          \* per render call: text written to the Writer
    renderError,   \* per render call: message of the Exception, <<>> if none
    iterLog,       \* per render call: child context seen at each renderChildren
    context0,      \* per render call: wrapped value of the Context at the call
    stream,        \* Parser: fragments not yet consumed
    consumed,      \* Parser: fragments consumed so far
    scopeStack,    \* Parser: stack of open scoped nodes (top = last)
    parseResult    \* Parser: "parsing", "tree" or "syntax_error"

headerVars == <<fragment, nodeState, syntaxError>>
nodeVars   == <<m_vars, m_container, m_children>>
renderVars == <<pc, context, container, prototype, items, itemIdx, childIdx, sink,
                renderError, iterLog, context0>>
parserVars == <<stream, consumed, scopeStack, parseResult>>
vars == <<fragment, nodeState, syntaxError, m_vars, m_container, m_children,
          pc, context, container, prototype, items, itemIdx, childIdx, sink,
          renderError, iterLog, context0,
          stream, consumed, scopeStack, parseResult>>

(***************************************************************************)
(* Bounds                                                                  *)
(***************************************************************************)
\* longest variable segment of the generated loop headers
MaxSeg == 4
\* most elements of a generated array or object container
MaxItems == 3
\* most fragments of a generated fragment stream
MaxFragments == 4

(***************************************************************************)
(* Characters and text                                                     *)
(***************************************************************************)
LowerChars == {"a","b","c","d","e","f","g","h","i","j","k","l","m",
               "n","o","p","q","r","s","t","u","v","w","x","y","z"}
UpperChars == {"A","B","C","D","E","F","G","H","I","J","K","L","M",
               "N","O","P","Q","R","S","T","U","V","W","X","Y","Z"}
DigitChars == {"0","1","2","3","4","5","6","7","8","9"}

\* \s of the ECMAScript grammar, restricted to the characters of the model
IsSpace(c) == c \in {" ", "\t"}
\* \w
IsWord(c) == c \in LowerChars \cup UpperChars \cup DigitChars \cup {"_"}
\* [a-zA-Z0-9 _,]
IsVarSegChar(c) == c \in LowerChars \cup UpperChars \cup DigitChars \cup {" ", "_", ","}
\* . (anything but a line terminator)
IsDot(c) == c \notin {"\n", "\r"}

Max(S) == CHOOSE x \in S : \A y \in S : y <= x
Min(S) == CHOOSE x \in S : \A y \in S : x <= y

AllSpace(s, from, to) == \A i \in from..to : IsSpace(s[i])

(***************************************************************************)
(* EachNode::processFragment                                               *)
(***************************************************************************)
\* std::regex_match(cleaned, match, splitter) with
\*   splitter = ^for\s+(\w[a-zA-Z0-9 _,]*) \s*in\s+(.+)$
\* Every quantifier is greedy, so the match found by backtracking is the one
\* that makes the quantified pieces longest, leftmost piece first.
\*   a = last position of the first \s+     b = last position of group 1
\*   c = last position of \s*               d = last position of the last \s+
MatchSplitter(s) ==
    LET n == Len(s)
        Ds(c) == {d \in (c+3)..(n-1) :
                     /\ AllSpace(s, c+3, d)
                     /\ \A i \in (d+1)..n : IsDot(s[i])}
        Cs(b) == {c \in (b+1)..(n-2) :
                     /\ AllSpace(s, b+2, c)
                     /\ s[c+1] = "i" /\ s[c+2] = "n"
                     /\ Ds(c) # {}}
        Bs(a) == {b \in (a+1)..(n-1) :
                     /\ IsWord(s[a+1])
                     /\ \A i \in (a+2)..b : IsVarSegChar(s[i])
                     /\ s[b+1] = " "
                     /\ Cs(b) # {}}
        As    == {a \in 4..n :
                     /\ AllSpace(s, 4, a)
                     /\ Bs(a) # {}}
    IN  IF n < 3 \/ SubSeq(s, 1, 3) # <<"f","o","r">> \/ As = {}
        THEN [matched |-> FALSE, g1 |-> <<>>, g2 |-> <<>>]
        ELSE LET a == Max(As)
                 b == Max(Bs(a))
                 c == Max(Cs(b))
                 d == Max(Ds(c))
             IN  [matched |-> TRUE,
                  g1 |-> SubSeq(s, a+1, b),
                  g2 |-> SubSeq(s, d+1, n)]

\* std::regex_search of varNameExtractor = \s*,\s* in s from position `from`:
\* the leftmost position where a run of white space followed by a comma starts
SepStarts(s, from) ==
    {i \in from..Len(s) :
        \E j \in i..Len(s) : AllSpace(s, i, j-1) /\ s[j] = ","}

\* last position of the separator that starts at i (both \s* are greedy)
SepEnd(s, i) ==
    LET j == Min({k \in i..Len(s) : s[k] = ","})
    IN  Max({e \in j..Len(s) : AllSpace(s, j+1, e)})

\* std::sregex_token_iterator(vars.begin(), vars.end(), varNameExtractor, -1)
\* copied to possibleVars: the pieces between the separators; the piece
\* after the last separator is produced only when it is not empty.
RECURSIVE TokensFrom(_, _)
TokensFrom(s, from) ==
    IF SepStarts(s, from) = {}
    THEN IF from = 1 THEN <<s>>
         ELSE IF from <= Len(s) THEN <<SubSeq(s, from, Len(s))>>
         ELSE <<>>
    ELSE LET i == Min(SepStarts(s, from))
         IN  <<SubSeq(s, from, i-1)>> \o TokensFrom(s, SepEnd(s, i) + 1)

SplitVarNames(s) == TokensFrom(s, 1)

\* std::find(possibleVars.begin(), possibleVars.end(), "") != end
HasEmptyName(names) == \E i \in 1..Len(names) : names[i] = <<>>

\* the whole of processFragment as a function of the cleaned fragment
ProcessFragmentResult(cleaned) ==
    LET m == MatchSplitter(cleaned)
    IN  IF ~m.matched
        THEN [ok |-> FALSE, error |-> cleaned, vars |-> <<>>, container |-> <<>>]
        ELSE LET possibleVars == SplitVarNames(m.g1)
             IN  IF HasEmptyName(possibleVars)
                 THEN [ok |-> FALSE, error |-> m.g1,
                       vars |-> <<>>, container |-> <<>>]
                 ELSE [ok |-> TRUE, error |-> <<>>,
                       vars |-> possibleVars, container |-> m.g2]

(***************************************************************************)
(* json11::Json, the dynamic value                                         *)
(***************************************************************************)
JNull     == [type |-> "NUL"]
JNum(n)   == [type |-> "NUMBER", num |-> n]
JBool(b)  == [type |-> "BOOL", bool |-> b]
JStr(s)   == [type |-> "STRING", str |-> s]
JArr(a)   == [type |-> "ARRAY", arr |-> a]
JObj(o)   == [type |-> "OBJECT", obj |-> o]

is_array(j)  == j.type = "ARRAY"
is_object(j) == j.type = "OBJECT"

\* the empty std::map
EmptyObject == [k \in {} |-> JNull]

\* Json::array_items: the enclosed vector, an empty vector otherwise
array_items(j) == IF is_array(j) THEN j.arr ELSE <<>>
\* Json::object_items: the enclosed map, an empty map otherwise
object_items(j) == IF is_object(j) THEN j.obj ELSE EmptyObject

\* std::map::operator[] followed by an assignment
MapSet(o, k, v) == [x \in (DOMAIN o) \cup {k} |-> IF x = k THEN v ELSE o[x]]

\* the characters of the model in the order of their character codes
Ascii == <<"\t", "\n", "\r", " ", "\"", ",", "-", "0", "1", "2", "3", "4",
           "5", "6", "7", "8", "9", ":", ";", "=", "A", "B", "C", "K", "V",
           "X", "[", "]", "_", "a", "b", "c", "d", "e", "f", "i", "k", "l",
           "m", "n", "o", "r", "s", "t", "u", "v", "x", "y", "z", "{", "}">>
CharCode(c) == CHOOSE i \in 1..Len(Ascii) : Ascii[i] = c

\* std::string::operator< : lexicographic on the character codes
StringLess(s, t) ==
    \E i \in 1..(Len(t)) :
        /\ \A j \in 1..(i-1) : j <= Len(s) /\ s[j] = t[j]
        /\ \/ i = Len(s) + 1
           \/ i <= Len(s) /\ CharCode(s[i]) < CharCode(t[i])

\* the order in which a range-for visits a std::map<std::string, Json>:
\* ascending keys
RECURSIVE SortedKeys(_)
SortedKeys(keys) ==
    IF keys = {} THEN <<>>
    ELSE LET first == CHOOSE k \in keys : \A other \in keys \ {k} : StringLess(k, other)
         IN  <<first>> \o SortedKeys(keys \ {first})

\* the (key, value) pairs of an object in iteration order
MapEntries(o) ==
    LET ks == SortedKeys(DOMAIN o)
    IN  [i \in 1..Len(ks) |-> [first |-> ks[i], second |-> o[ks[i]]]]

\* decimal digits of a natural number
RECURSIVE NatToChars(_)
NatToChars(n) ==
    LET digit == <<"0","1","2","3","4","5","6","7","8","9">>[(n % 10) + 1]
    IN  IF n < 10 THEN <<digit>> ELSE NatToChars(n \div 10) \o <<digit>>

IntToChars(n) == IF n < 0 THEN <<"-">> \o NatToChars(-n) ELSE NatToChars(n)

RECURSIVE JoinChars(_, _)
JoinChars(parts, sep) ==
    IF Len(parts) = 0 THEN <<>>
    ELSE IF Len(parts) = 1 THEN parts[1]
    ELSE parts[1] \o sep \o JoinChars(Tail(parts), sep)

\* Json::dump: serialization to JSON text
RECURSIVE dump(_)
dump(j) ==
    CASE j.type = "NUL"    -> <<"n","u","l","l">>
      [] j.type = "BOOL"   -> IF j.bool THEN <<"t","r","u","e">>
                                        ELSE <<"f","a","l","s","e">>
      [] j.type = "NUMBER" -> IntToChars(j.num)
      [] j.type = "STRING" -> <<"\"">> \o j.str \o <<"\"">>
      [] j.type = "ARRAY"  ->
            <<"[">> \o JoinChars([i \in 1..Len(j.arr) |-> dump(j.arr[i])],
                                 <<",", " ">>) \o <<"]">>
      [] j.type = "OBJECT" ->
            LET es == MapEntries(j.obj)
            IN  <<"{">> \o JoinChars([i \in 1..Len(es) |->
                                        <<"\"">> \o es[i].first \o <<"\"", ":", " ">>
                                        \o dump(es[i].second)],
                                     <<",", " ">>) \o <<"}">>


(***************************************************************************)
(* Collaborators of the loop node: the expression evaluator, the Context   *)
(* objects and the child nodes                                             *)
(***************************************************************************)
\* the render calls in flight (one per thread)
Renders == {1, 2}

\* wrapped value of a Context that has not been created
NoContext == [type |-> "none"]

\* ExpressionParser::parse: the expression names a member of the context
\* object; an absent member evaluates to null
Eval(expr, ctxJson) ==
    LET o == object_items(ctxJson)
    IN  IF expr \in DOMAIN o THEN o[expr] ELSE JNull

\* child nodes of the loop body
TextNode(t)      == [node |-> "Text", text |-> t]
VarNode(e)       == [node |-> "Variable", expr |-> e]
\* a node whose render replaces the wrapped value of the Context it is given
\* (Context::setJson) by that value with one member overwritten
SetNode(k, v)    == [node |-> "Set", key |-> k, value |-> v]

\* text a child node writes to the Writer when rendered against ctxJson
ChildOutput(child, ctxJson) ==
    CASE child.node = "Text"     -> child.text
      [] child.node = "Variable" ->
            LET v == Eval(child.expr, ctxJson)
            IN  IF v.type = "STRING" THEN v.str ELSE dump(v)
      [] child.node = "Set"      -> <<>>

\* wrapped value of the Context after the child node has rendered against it
ChildContextAfter(child, ctxJson) ==
    IF child.node = "Set"
    THEN JObj(MapSet(object_items(ctxJson), child.key, child.value))
    ELSE ctxJson

(***************************************************************************)
(* EachNode::render                                                        *)
(***************************************************************************)
\* address of the Context the caller passes to render call r
ContextArg(r) == <<"context", r>>

NewContextAddrShared(r) == <<"newContext", 1>>
\* address of the Context allocated by `new Context(prototype)` in call r
NewContextAddr(r) == <<"newContext", r>>

\* the Context whose setJson is called at the top of every iteration
SetJsonTarget(r) == NewContextAddr(r)

RenderChildrenArgEnclosing(r) == ContextArg(r)
\* the Context handed to renderChildren
RenderChildrenArg(r) == NewContextAddr(r)

Addrs == {ContextArg(r) : r \in Renders} \cup {<<"newContext", r>> : r \in Renders}

IsIterableNoCheck(c) == TRUE
\* container.is_array() || container.is_object()
IsIterable(c) == is_array(c) \/ is_object(c)

\* container.dump() + " is not iterable"
NotIterableMessage(c) ==
    dump(c) \o <<" ","i","s"," ","n","o","t"," ","i","t","e","r","a","b","l","e">>

\* items = container.array_items() / container.object_items(), as the
\* sequence the range-for visits
ContainerItems(c) ==
    IF c.type = "ARRAY" THEN array_items(c)
    ELSE IF c.type = "OBJECT" THEN MapEntries(object_items(c))
    ELSE <<>>

BindArraySecond(proto, names, item) == MapSet(proto, names[Len(names)], item)
\* prototype[m_vars[0]] = item
BindArray(proto, names, item) == MapSet(proto, names[1], item)

BindObjectKeyOnly(proto, names, item) ==
    MapSet(proto, names[1], JStr(item.first))
\* prototype[m_vars[0]] = item.first;
\* if (m_vars.size() > 1) prototype[m_vars[1]] = item.second
BindObject(proto, names, item) ==
    LET withKey == MapSet(proto, names[1], JStr(item.first))
    IN  IF Len(names) > 1 THEN MapSet(withKey, names[2], item.second)
        ELSE withKey

\* the assignments at the top of one iteration, by the type of the container
Bind(c, proto, names, item) ==
    IF c.type = "ARRAY" THEN BindArray(proto, names, item)
    ELSE BindObject(proto, names, item)

IterationBaseChild(r) == object_items(context[NewContextAddr(r)])
\* the map an iteration starts from: the local `prototype`
IterationBase(r) == prototype[r]

\* lines 32-41: evaluate the container, throw if it is not iterable, else
\* copy the context's object into prototype and create newContext from it
RenderCall(r) ==
    /\ pc[r] = "call"
    /\ LET c == Eval(m_container, context[ContextArg(r)])
       IN  /\ container' = [container EXCEPT ![r] = c]
           /\ IF ~IsIterable(c)
              THEN /\ renderError' = [renderError EXCEPT ![r] = NotIterableMessage(c)]
                   /\ pc' = [pc EXCEPT ![r] = "thrown"]
                   /\ UNCHANGED <<context, prototype, items, itemIdx>>
              ELSE /\ prototype' = [prototype EXCEPT
                                      ![r] = object_items(context[ContextArg(r)])]
                   /\ context' = [context EXCEPT
                                    ![NewContextAddr(r)] = JObj(prototype'[r])]
                   /\ items' = [items EXCEPT ![r] = ContainerItems(c)]
                   /\ itemIdx' = [itemIdx EXCEPT ![r] = 0]
                   /\ pc' = [pc EXCEPT ![r] = "loop"]
                   /\ UNCHANGED renderError
    /\ UNCHANGED <<childIdx, sink, iterLog, context0>>
    /\ UNCHANGED <<headerVars, nodeVars, parserVars>>

\* lines 45-49 / 55-63: the head of one iteration up to the call of
\* renderChildren
LoopBind(r) ==
    /\ pc[r] = "loop"
    /\ itemIdx[r] < Len(items[r])
    /\ LET item  == items[r][itemIdx[r] + 1]
           proto == Bind(container[r], IterationBase(r), m_vars, item)
       IN  /\ prototype' = [prototype EXCEPT ![r] = proto]
           /\ context' = [context EXCEPT ![SetJsonTarget(r)] = JObj(proto)]
           /\ iterLog' = [iterLog EXCEPT
                            ![r] = Append(@, [item |-> item,
                                              ctx  |-> context'[RenderChildrenArg(r)]])]
    /\ itemIdx' = [itemIdx EXCEPT ![r] = @ + 1]
    /\ childIdx' = [childIdx EXCEPT ![r] = 1]
    /\ pc' = [pc EXCEPT ![r] = IF m_children = <<>> THEN "loop" ELSE "children"]
    /\ UNCHANGED <<container, items, sink, renderError, context0>>
    /\ UNCHANGED <<headerVars, nodeVars, parserVars>>

\* Node::renderChildren: the next child renders against the child context
RenderChild(r) ==
    /\ pc[r] = "children"
    /\ LET child == m_children[childIdx[r]]
           addr  == RenderChildrenArg(r)
       IN  /\ sink' = [sink EXCEPT ![r] = @ \o ChildOutput(child, context[addr])]
           /\ context' = [context EXCEPT ![addr] = ChildContextAfter(child, @)]
    /\ IF childIdx[r] = Len(m_children)
       THEN pc' = [pc EXCEPT ![r] = "loop"] /\ UNCHANGED childIdx
       ELSE childIdx' = [childIdx EXCEPT ![r] = @ + 1] /\ UNCHANGED pc
    /\ UNCHANGED <<container, prototype, items, itemIdx, renderError, iterLog,
                   context0>>
    /\ UNCHANGED <<headerVars, nodeVars, parserVars>>

\* line 66: the range-for is exhausted and render returns
RenderReturn(r) ==
    /\ pc[r] = "loop"
    /\ itemIdx[r] = Len(items[r])
    /\ pc' = [pc EXCEPT ![r] = "returned"]
    /\ UNCHANGED <<context, container, prototype, items, itemIdx, childIdx,
                   sink, renderError, iterLog, context0>>
    /\ UNCHANGED <<headerVars, nodeVars, parserVars>>


\* render as a function of the node and of the wrapped value of the context:
\* what one call produces when nothing else runs
RECURSIVE ChildrenOutput(_, _)
ChildrenOutput(children, ctxJson) ==
    IF children = <<>> THEN <<>>
    ELSE ChildOutput(Head(children), ctxJson)
            \o ChildrenOutput(Tail(children),
                              ChildContextAfter(Head(children), ctxJson))

RECURSIVE LoopOutput(_, _, _, _, _)
LoopOutput(c, proto, names, children, rest) ==
    IF rest = <<>> THEN <<>>
    ELSE LET bound == Bind(c, proto, names, Head(rest))
         IN  ChildrenOutput(children, JObj(bound))
                \o LoopOutput(c, bound, names, children, Tail(rest))

RenderResult(names, expr, children, ctxJson) ==
    LET c == Eval(expr, ctxJson)
    IN  IF ~(is_array(c) \/ is_object(c))
        THEN [returned |-> FALSE, out |-> <<>>, error |-> NotIterableMessage(c)]
        ELSE [returned |-> TRUE,
              out |-> LoopOutput(c, object_items(ctxJson), names, children,
                                 ContainerItems(c)),
              error |-> <<>>]

(***************************************************************************)
(* Inputs                                                                  *)
(***************************************************************************)
For   == <<"f","o","r">>
In    == <<"i","n">>
Sp    == <<" ">>
Items == <<"i","t","e","m","s">>

SeqsUpTo(S, n) == UNION {[1..k -> S] : k \in 0..n}

\* loop headers of the nodes that are rendered
HeaderX   == For \o Sp \o <<"x">> \o Sp \o In \o Sp \o Items
HeaderKV  == For \o Sp \o <<"k",","," ","v">> \o Sp \o In \o Sp \o Items
HeaderKK  == For \o Sp \o <<"k",","," ","k">> \o Sp \o In \o Sp \o Items
HeaderABC == For \o Sp \o <<"a",","," ","b",","," ","c">> \o Sp \o In \o Sp \o Items
RenderHeaders == {HeaderX, HeaderKV, HeaderKK, HeaderABC}

\* loop bodies
BodyX    == <<VarNode(<<"x">>), TextNode(<<",">>)>>
BodyKV   == <<VarNode(<<"k">>), TextNode(<<"=">>), VarNode(<<"v">>),
              TextNode(<<";">>)>>
BodySet  == <<SetNode(<<"x">>, JNum(9)), VarNode(<<"x">>),
              SetNode(<<"k">>, JNull), SetNode(<<"t">>, JBool(TRUE))>>
BodyNone == <<>>
Bodies == {BodyX, BodyKV, BodySet, BodyNone}

ElemValues == {JNum(1), JNum(2), JNum(3)}
ObjKeys    == {<<"a">>, <<"b">>, <<"B">>, <<"a","b">>}
ObjValues  == {JNum(1), JNum(2)}

ArrayContainers ==
    {JArr(a) : a \in SeqsUpTo(ElemValues, MaxItems)}
        \cup {JArr(<<JStr(<<"a">>), JNull>>), JArr(<<JArr(<<JNum(1)>>)>>)}
ObjectContainers ==
    UNION {{JObj(o) : o \in [ks -> ObjValues]} :
              ks \in {K \in SUBSET ObjKeys : Cardinality(K) <= MaxItems}}
ScalarContainers ==
    {JNull, JBool(TRUE), JBool(FALSE), JNum(5), JNum(12), JNum(-3),
     JStr(<<"s">>), JStr(<<>>)}
Containers == ArrayContainers \cup ObjectContainers \cup ScalarContainers

\* members of the enclosing context besides the container
EnclosingExtras ==
    {EmptyObject, (<<"x">> :> JStr(<<"o">>)) @@ (<<"y">> :> JNum(7))}

ConcHeaders    == {HeaderX, HeaderKV}
ConcBodies     == {BodyX, BodySet}
ConcContainers == {JArr(<<JNum(1), JNum(2)>>), JArr(<<JNum(3)>>),
                   JObj((<<"a">> :> JNum(1)) @@ (<<"b">> :> JNum(2))), JNum(5)}

(***************************************************************************)
(* Specification of one render call, and of two concurrent calls           *)
(***************************************************************************)
\* the node as the parser leaves it: configured from its open tag
NodeConfigured(h, body) ==
    /\ fragment = h
    /\ nodeState = "configured"
    /\ syntaxError = <<>>
    /\ m_vars = ProcessFragmentResult(h).vars
    /\ m_container = ProcessFragmentResult(h).container
    /\ m_children = body

ParserFinished ==
    /\ stream = <<>>
    /\ consumed = <<>>
    /\ scopeStack = <<>>
    /\ parseResult = "tree"

\* render calls `active` are about to start, each on its own Context
RenderInit(active, ctxOf) ==
    /\ pc = [r \in Renders |-> IF r \in active THEN "call" ELSE "idle"]
    /\ context = [a \in Addrs |->
                    IF \E r \in active : a = ContextArg(r)
                    THEN ctxOf[a[2]] ELSE NoContext]
    /\ context0 = [r \in Renders |-> IF r \in active THEN ctxOf[r] ELSE NoContext]
    /\ container = [r \in Renders |-> JNull]
    /\ prototype = [r \in Renders |-> EmptyObject]
    /\ items = [r \in Renders |-> <<>>]
    /\ itemIdx = [r \in Renders |-> 0]
    /\ childIdx = [r \in Renders |-> 0]
    /\ sink = [r \in Renders |-> <<>>]
    /\ renderError = [r \in Renders |-> <<>>]
    /\ iterLog = [r \in Renders |-> <<>>]

Init ==
    /\ \E h \in RenderHeaders, body \in Bodies : NodeConfigured(h, body)
    /\ ParserFinished
    /\ \E c \in Containers, extra \in EnclosingExtras :
          RenderInit({1}, [r \in Renders |-> JObj(MapSet(extra, Items, c))])

InitConc ==
    /\ \E h \in ConcHeaders, body \in ConcBodies : NodeConfigured(h, body)
    /\ ParserFinished
    /\ \E c1 \in ConcContainers, c2 \in ConcContainers :
          RenderInit({1, 2},
                     [r \in Renders |->
                        JObj(MapSet(EmptyObject, Items, IF r = 1 THEN c1 ELSE c2))])

Next ==
    \/ \E r \in Renders : RenderCall(r)
    \/ \E r \in Renders : LoopBind(r)
    \/ \E r \in Renders : RenderChild(r)
    \/ \E r \in Renders : RenderReturn(r)

Spec == Init /\ [][Next]_vars

SpecConc == InitConc /\ [][Next]_vars


(***************************************************************************)
(* Properties of EachNode::render                                          *)
(***************************************************************************)
Started(r) == pc[r] \notin {"idle", "call"}
Finished(r) == pc[r] \in {"returned", "thrown"}

\* the value the container expression has in the context given to the call
InputContainer(r) == Eval(m_container, context0[r])
\* the object wrapped by the context given to the call
InputObject(r) == object_items(context0[r])

\* the i-th key of a std::map: the key with i-1 smaller keys
KeyAt(o, i) ==
    CHOOSE k \in DOMAIN o :
        Cardinality({k2 \in DOMAIN o : StringLess(k2, k)}) = i - 1

\* what the children write over the repetitions recorded in a log
RECURSIVE LogOutput(_, _)
LogOutput(children, log) ==
    IF log = <<>> THEN <<>>
    ELSE ChildrenOutput(children, Head(log).ctx) \o LogOutput(children, Tail(log))

Text_1_2_3 == <<"1", ",", "2", ",", "3", ",">>
Text_a1_b2 == <<"a", "=", "1", ";", "b", "=", "2", ";">>
Text_5_not_iterable ==
    <<"5"," ","i","s"," ","n","o","t"," ","i","t","e","r","a","b","l","e">>
Text_s_not_iterable ==
    <<"\"","s","\""," ","i","s"," ","n","o","t"," ","i","t","e","r","a","b","l","e">>

\* C1: over an array of n elements the children are rendered exactly n
\* times, in element order, the first declared variable holding the i-th
\* element in the i-th repetition; over an empty array the children are
\* never rendered and nothing is written ('{{ x }},' over [1,2,3] gives
\* '1,2,3,').
Thm_C1_ArrayIteration ==
    \A r \in Renders :
        (Started(r) /\ is_array(InputContainer(r))) =>
            LET a == array_items(InputContainer(r))
                n == Len(a)
            IN  /\ pc[r] # "thrown"
                /\ Len(iterLog[r]) <= n
                /\ \A i \in 1..Len(iterLog[r]) :
                      /\ m_vars[1] \in DOMAIN iterLog[r][i].ctx.obj
                      /\ iterLog[r][i].ctx.obj[m_vars[1]] = a[i]
                /\ pc[r] = "returned" =>
                      /\ Len(iterLog[r]) = n
                      /\ sink[r] = LogOutput(m_children, iterLog[r])
                      /\ n = 0 => sink[r] = <<>>
                      /\ (a = <<JNum(1), JNum(2), JNum(3)>> /\ m_children = BodyX
                            /\ m_vars = <<<<"x">>>>) => sink[r] = Text_1_2_3

Wit_C1_ArrayIteration ==
    /\ pc[1] = "returned"
    /\ InputContainer(1) = JArr(<<JNum(1), JNum(2), JNum(3)>>)
    /\ m_children = BodyX
    /\ Len(iterLog[1]) = 3
    /\ sink[1] = Text_1_2_3

\* the part of C2 that does not depend on the names: one repetition per
\* key/value pair, in ascending key order, the second declared name bound
\* to the value, and no name bound besides the declared ones
ObjectIterationFrame(r) ==
    LET o == object_items(InputContainer(r))
        n == Cardinality(DOMAIN o)
    IN  /\ pc[r] # "thrown"
        /\ Len(iterLog[r]) <= n
        /\ pc[r] = "returned" =>
              /\ Len(iterLog[r]) = n
              /\ sink[r] = LogOutput(m_children, iterLog[r])
        /\ \A i \in 1..Len(iterLog[r]) :
              LET c == iterLog[r][i].ctx.obj
              IN  /\ Len(m_vars) > 1 =>
                        /\ m_vars[2] \in DOMAIN c
                        /\ c[m_vars[2]] = o[KeyAt(o, i)]
                  /\ DOMAIN c = DOMAIN InputObject(r) \cup {m_vars[1]}
                        \cup (IF Len(m_vars) > 1 THEN {m_vars[2]} ELSE {})
        /\ (o = (<<"a">> :> JNum(1)) @@ (<<"b">> :> JNum(2))
              /\ m_children = BodyKV /\ m_vars = <<<<"k">>, <<"v">>>>
              /\ pc[r] = "returned") => sink[r] = Text_a1_b2

\* C2 as claimed: over an object the children are rendered once per
\* key/value pair in the object's stored key order, the first declared
\* variable bound to the key as a string and the second bound to the value
\* iff a second name was declared.
Cex_C2_ObjectIteration ==
    \A r \in Renders :
        (Started(r) /\ is_object(InputContainer(r))) =>
            /\ ObjectIterationFrame(r)
            /\ \A i \in 1..Len(iterLog[r]) :
                  /\ m_vars[1] \in DOMAIN iterLog[r][i].ctx.obj
                  /\ iterLog[r][i].ctx.obj[m_vars[1]]
                        = JStr(KeyAt(object_items(InputContainer(r)), i))

\* C2 amended: as claimed, except that the first declared variable holds
\* the key only when the second declared name is a different name; when
\* both names are the same, that one name holds the value.
Thm_C2_ObjectIteration ==
    \A r \in Renders :
        (Started(r) /\ is_object(InputContainer(r))) =>
            /\ ObjectIterationFrame(r)
            /\ \A i \in 1..Len(iterLog[r]) :
                  /\ m_vars[1] \in DOMAIN iterLog[r][i].ctx.obj
                  /\ (Len(m_vars) = 1 \/ m_vars[2] # m_vars[1]) =>
                        iterLog[r][i].ctx.obj[m_vars[1]]
                            = JStr(KeyAt(object_items(InputContainer(r)), i))

Wit_C2_ObjectIteration ==
    /\ pc[1] = "returned"
    /\ InputContainer(1) = JObj((<<"a">> :> JNum(1)) @@ (<<"b">> :> JNum(2)))
    /\ m_vars = <<<<"k">>, <<"v">>>>
    /\ m_children = BodyKV
    /\ Len(iterLog[1]) = 2
    /\ sink[1] = Text_a1_b2

\* C3: a container that is neither an array nor an object makes render
\* throw "<dumped value> is not iterable" before any child is rendered,
\* before anything is written and before the child context is created.
Thm_C3_NotIterable ==
    \A r \in Renders :
        (Started(r) /\ InputContainer(r).type \notin {"ARRAY", "OBJECT"}) =>
            /\ pc[r] = "thrown"
            /\ renderError[r] = dump(InputContainer(r))
                  \o <<" ","i","s"," ","n","o","t"," ","i","t","e","r","a","b","l","e">>
            /\ InputContainer(r) = JNum(5) => renderError[r] = Text_5_not_iterable
            /\ InputContainer(r) = JStr(<<"s">>) => renderError[r] = Text_s_not_iterable
            /\ sink[r] = <<>>
            /\ iterLog[r] = <<>>
            /\ context[<<"newContext", r>>] = NoContext

Wit_C3_NotIterable ==
    /\ pc[1] = "thrown"
    /\ InputContainer(1) = JNum(5)
    /\ renderError[1] = Text_5_not_iterable

\* C4: the wrapped value of the Context passed to render is never changed,
\* whatever the container and whatever the children do to the child context.
Thm_C4_EnclosingUnchanged ==
    \A r \in Renders :
        pc[r] # "idle" => context[ContextArg(r)] = context0[r]

Wit_C4_EnclosingUnchanged ==
    /\ pc[1] = "returned"
    /\ m_children = BodySet
    /\ Len(iterLog[1]) >= 2
    /\ <<"t">> \in DOMAIN object_items(context[<<"newContext", 1>>])
    /\ <<"t">> \notin DOMAIN object_items(context[ContextArg(1)])

\* C5: whenever the children start rendering, the child context holds the
\* enclosing context's object with only the declared loop variables
\* overwritten by the current element or key/value; nothing a child did to
\* the child context in an earlier repetition is visible.
Thm_C5_IterationStart ==
    \A r \in Renders :
        \A i \in 1..Len(iterLog[r]) :
            LET e == InputObject(r)
                c == iterLog[r][i].ctx.obj
                isArr == is_array(InputContainer(r))
                bound == IF isArr \/ Len(m_vars) = 1 THEN {m_vars[1]}
                         ELSE {m_vars[1], m_vars[2]}
            IN  /\ DOMAIN c = DOMAIN e \cup bound
                /\ \A k \in DOMAIN e \ bound : c[k] = e[k]
                /\ isArr => c[m_vars[1]] = array_items(InputContainer(r))[i]
                /\ ~isArr =>
                      LET o == object_items(InputContainer(r))
                      IN  \A k \in bound : c[k] \in {JStr(KeyAt(o, i)), o[KeyAt(o, i)]}

Wit_C5_IterationStart ==
    /\ m_children = BodySet
    /\ m_vars[1] = <<"x">>
    /\ Len(iterLog[1]) >= 2
    /\ pc[1] = "children" /\ childIdx[1] = 1
    /\ iterLog[1][1].ctx # iterLog[1][2].ctx
    /\ <<"t">> \notin DOMAIN iterLog[1][2].ctx.obj

\* C10: two renders of the same node on distinct Contexts, interleaved in
\* any way, each produce the output and leave the Context value that the
\* call produces when run alone, and no render changes the node.
Thm_C10_ConcurrentRenders ==
    /\ m_vars = ProcessFragmentResult(fragment).vars
    /\ m_container = ProcessFragmentResult(fragment).container
    /\ \A r \in Renders :
          Finished(r) =>
              LET res == RenderResult(m_vars, m_container, m_children, context0[r])
              IN  /\ (pc[r] = "returned") = res.returned
                  /\ sink[r] = res.out
                  /\ renderError[r] = res.error
                  /\ context[ContextArg(r)] = context0[r]

Wit_C10_ConcurrentRenders ==
    /\ pc[1] = "returned" /\ pc[2] = "returned"
    /\ sink[1] # <<>> /\ sink[2] # <<>>
    /\ sink[1] # sink[2]
    /\ Len(iterLog[1]) = 2


(***************************************************************************)
(* Specification of EachNode::processFragment on one open tag              *)
(***************************************************************************)
Header_comma_x == For \o <<" ", ",", " ", "x", " ">> \o In \o <<" ", "y">>
Header_x_comma == For \o <<" ", "x", ",", " ">> \o In \o <<" ", "y">>
Header_a_b_c   == For \o <<" ", "a", ",", " ", "b", ",", " ", "c", " ">>
                      \o In \o <<" ", "y">>
Header_a_sp_b  == For \o <<" ", "a", " ", "b", " ">> \o In \o <<" ", "y">>
Header_x_in_y  == For \o <<" ", "x", " ">> \o In \o <<" ", "y">>

SegChars == {"x", "b", ",", " ", "-"}
HeaderPrefixes == {For \o Sp, For, For \o Sp \o Sp}
HeaderSuffixes == {Sp \o In \o <<" ", "y">>, In \o <<" ", "y">>,
                   <<" ", " ">> \o In \o <<" ", "y">>, Sp \o In \o Sp}

Headers ==
    {pre \o seg \o suf : pre \in HeaderPrefixes, seg \in SeqsUpTo(SegChars, MaxSeg),
                         suf \in HeaderSuffixes}
        \cup {Header_comma_x, Header_x_comma, Header_a_b_c, Header_a_sp_b,
              Header_x_in_y}
        \cup RenderHeaders

\* EachNode::processFragment(fragment)
ProcessFragment ==
    /\ nodeState = "constructed"
    /\ LET res == ProcessFragmentResult(fragment)
       IN  IF res.ok
           THEN /\ m_vars' = res.vars
                /\ m_container' = res.container
                /\ nodeState' = "configured"
                /\ UNCHANGED syntaxError
           ELSE /\ syntaxError' = res.error
                /\ nodeState' = "syntax_error"
                /\ UNCHANGED <<m_vars, m_container>>
    /\ UNCHANGED <<fragment, m_children>>
    /\ UNCHANGED <<renderVars, parserVars>>

\* no render call is in flight
RenderIdle == RenderInit({}, [r \in Renders |-> NoContext])

InitHeader ==
    /\ fragment \in Headers
    /\ nodeState = "constructed"
    /\ syntaxError = <<>>
    /\ m_vars = <<>>
    /\ m_container = <<>>
    /\ m_children = <<>>
    /\ RenderIdle
    /\ stream = <<>> /\ consumed = <<>> /\ scopeStack = <<>>
    /\ parseResult = "parsing"

NextHeader == ProcessFragment

SpecHeader == InitHeader /\ [][NextHeader]_vars

IsIdentifier(name) == name # <<>> /\ \A i \in 1..Len(name) : IsWord(name[i])

\* C6: the headers 'for , x in y' and 'for x, in y' both raise a syntax
\* error; neither is accepted and neither stores a variable list.
Cex_C6_EmptyIdentifier ==
    (nodeState # "constructed" /\ fragment \in {Header_comma_x, Header_x_comma}) =>
        /\ nodeState = "syntax_error"
        /\ m_vars = <<>>

\* C7: an accepted header stores 1 or 2 names, each a non-empty identifier
\* of alphanumeric characters and underscores; 'for a, b, c in y' and
\* 'for a b in y' are rejected with a syntax error.
Cex_C7_VariableList ==
    nodeState # "constructed" =>
        /\ nodeState = "configured" =>
              /\ Len(m_vars) \in {1, 2}
              /\ \A i \in 1..Len(m_vars) : IsIdentifier(m_vars[i])
        /\ fragment \in {Header_a_b_c, Header_a_sp_b} => nodeState = "syntax_error"

(***************************************************************************)
(* Parser::loadFromStream: the scope stack                                 *)
(***************************************************************************)
EndFor == <<"e","n","d","f","o","r">>
EndIf  == <<"e","n","d","i","f">>

FText      == [type |-> "TextFragment", clean |-> <<"t">>]
FVar       == [type |-> "VarElement", clean |-> <<"x">>]
FOpen(c)   == [type |-> "OpenBlockFragment", clean |-> c]
FClose(c)  == [type |-> "CloseBlockFragment", clean |-> c]

FFor      == FOpen(Header_x_in_y)
FForBad   == FOpen(Header_comma_x)
FIf       == FOpen(<<"i","f"," ","c">>)
FInclude  == FOpen(<<"i","n","c","l","u","d","e"," ","f">>)
FUnknown  == FOpen(<<"b","o","g","u","s">>)
FEndFor   == FClose(EndFor)
FEndIf    == FClose(EndIf)

Fragments == {FText, FVar, FFor, FForBad, FIf, FInclude, FUnknown, FEndFor, FEndIf}

\* the leading keyword of a block fragment
Keyword(clean) ==
    LET ends == {i \in 1..Len(clean) : clean[i] = " "}
    IN  IF ends = {} THEN clean ELSE SubSeq(clean, 1, Min(ends) - 1)

EachNodeHasScopeLeaf == FALSE
\* EachNode() : Node(true)
EachNodeHasScope == TRUE

\* the nodes the registry s_nodeCreators builds, by keyword
NodeCreators ==
    (For :> [name |-> "For", hasScope |-> EachNodeHasScope])
        @@ (<<"i","f">> :> [name |-> "If", hasScope |-> TRUE])
        @@ (<<"i","n","c","l","u","d","e">> :> [name |-> "Include", hasScope |-> FALSE])

EachExitScopeAcceptsEnd(endTag) == Len(endTag) >= 3 /\ SubSeq(endTag, 1, 3) = <<"e","n","d">>
\* EachNode::exitScope(endTag) returns without throwing
EachExitScopeAccepts(endTag) == ~(endTag # EndFor)

\* exitScope of the node, by variant
ExitScopeAccepts(node, endTag) ==
    CASE node.name = "For" -> EachExitScopeAccepts(endTag)
      [] node.name = "If"  -> endTag = EndIf
      [] OTHER             -> FALSE

\* processFragment of the node, by variant
NodeProcessFragment(node, clean) ==
    IF node.name = "For" THEN ProcessFragmentResult(clean)
    ELSE [ok |-> TRUE, error |-> <<>>, vars |-> <<>>, container |-> <<>>]

Consume ==
    /\ consumed' = Append(consumed, Head(stream))
    /\ stream' = Tail(stream)

ParserFrame == UNCHANGED <<fragment, nodeState, nodeVars, renderVars>>

\* TextFragment: a leaf text node is appended to the current parent
ParseText ==
    /\ parseResult = "parsing" /\ stream # <<>>
    /\ Head(stream).type = "TextFragment"
    /\ Consume
    /\ UNCHANGED <<scopeStack, parseResult, syntaxError>>
    /\ ParserFrame

\* VarElement: a leaf variable node is appended to the current parent
ParseVar ==
    /\ parseResult = "parsing" /\ stream # <<>>
    /\ Head(stream).type = "VarElement"
    /\ Consume
    /\ UNCHANGED <<scopeStack, parseResult, syntaxError>>
    /\ ParserFrame

\* OpenBlockFragment: look the keyword up, create and configure the node,
\* push it if it has a scope
ParseOpen ==
    /\ parseResult = "parsing" /\ stream # <<>>
    /\ Head(stream).type = "OpenBlockFragment"
    /\ Consume
    /\ LET clean == Head(stream).clean
           kw    == Keyword(clean)
       IN  IF kw \notin DOMAIN NodeCreators
           THEN /\ parseResult' = "syntax_error"
                /\ syntaxError' = clean
                /\ UNCHANGED scopeStack
           ELSE LET node == NodeCreators[kw]
                    res  == NodeProcessFragment(node, clean)
                IN  IF ~res.ok
                    THEN /\ parseResult' = "syntax_error"
                         /\ syntaxError' = res.error
                         /\ UNCHANGED scopeStack
                    ELSE /\ scopeStack' = IF node.hasScope
                                          THEN Append(scopeStack, node)
                                          ELSE scopeStack
                         /\ UNCHANGED <<parseResult, syntaxError>>
    /\ ParserFrame

\* CloseBlockFragment: the innermost open node must accept the tag
ParseClose ==
    /\ parseResult = "parsing" /\ stream # <<>>
    /\ Head(stream).type = "CloseBlockFragment"
    /\ Consume
    /\ LET tag == Head(stream).clean
       IN  IF scopeStack = <<>>
           THEN /\ parseResult' = "syntax_error"
                /\ syntaxError' = tag
                /\ UNCHANGED scopeStack
           ELSE IF ~ExitScopeAccepts(scopeStack[Len(scopeStack)], tag)
           THEN /\ parseResult' = "syntax_error"
                /\ syntaxError' = tag
                /\ UNCHANGED scopeStack
           ELSE /\ scopeStack' = SubSeq(scopeStack, 1, Len(scopeStack) - 1)
                /\ UNCHANGED <<parseResult, syntaxError>>
    /\ ParserFrame

\* end of the stream: every scope must have been closed
ParseEnd ==
    /\ parseResult = "parsing" /\ stream = <<>>
    /\ IF scopeStack # <<>>
       THEN /\ parseResult' = "syntax_error"
            /\ syntaxError' = scopeStack[1].name
       ELSE /\ parseResult' = "tree"
            /\ UNCHANGED syntaxError
    /\ UNCHANGED <<stream, consumed, scopeStack>>
    /\ ParserFrame

InitLoad ==
    /\ stream \in SeqsUpTo(Fragments, MaxFragments)
    /\ consumed = <<>>
    /\ scopeStack = <<>>
    /\ parseResult = "parsing"
    /\ fragment = <<>>
    /\ nodeState = "constructed"
    /\ syntaxError = <<>>
    /\ m_vars = <<>>
    /\ m_container = <<>>
    /\ m_children = <<>>
    /\ RenderIdle

NextLoad ==
    \/ ParseText
    \/ ParseVar
    \/ ParseOpen
    \/ ParseClose
    \/ ParseEnd

SpecLoad == InitLoad /\ [][NextLoad]_vars

\* C8: exitScope of the loop node accepts the closing tag 'endfor' and no
\* other; any other tag raises a syntax error carrying that tag, so
\* '{% for x in y %}{% endif %}' fails naming 'endif'.
Thm_C8_ExitScope ==
    [][ /\ ( /\ parseResult = "parsing" /\ stream # <<>>
             /\ Head(stream).type = "CloseBlockFragment"
             /\ scopeStack # <<>>
             /\ scopeStack[Len(scopeStack)].name = "For" ) =>
                IF Head(stream).clean = EndFor
                THEN /\ parseResult' = "parsing"
                     /\ scopeStack' = SubSeq(scopeStack, 1, Len(scopeStack) - 1)
                ELSE /\ parseResult' = "syntax_error"
                     /\ syntaxError' = Head(stream).clean
                     /\ scopeStack' = scopeStack
        /\ consumed' = <<FFor, FEndIf>> =>
                parseResult' = "syntax_error" /\ syntaxError' = EndIf
      ]_vars

Wit_C8_ExitScope ==
    /\ consumed = <<FFor, FEndIf>>
    /\ parseResult = "syntax_error"
    /\ syntaxError = EndIf

\* the scoped block tags and their terminators, as the template language
\* defines them
Terminator == (For :> EndFor) @@ (<<"i","f">> :> EndIf)

\* the scopes a fragment sequence leaves open, innermost last, or `bad` when
\* a close fragment does not terminate the innermost open scope
RECURSIVE OpenScopes(_)
OpenScopes(fs) ==
    IF fs = <<>> THEN [bad |-> FALSE, open |-> <<>>]
    ELSE LET before == OpenScopes(SubSeq(fs, 1, Len(fs) - 1))
             f      == fs[Len(fs)]
         IN  IF before.bad THEN before
             ELSE IF f.type = "OpenBlockFragment" /\ Keyword(f.clean) \in DOMAIN Terminator
             THEN [bad |-> FALSE, open |-> Append(before.open, Keyword(f.clean))]
             ELSE IF f.type = "CloseBlockFragment"
             THEN IF before.open # <<>>
                     /\ Terminator[before.open[Len(before.open)]] = f.clean
                  THEN [bad |-> FALSE,
                        open |-> SubSeq(before.open, 1, Len(before.open) - 1)]
                  ELSE [bad |-> TRUE, open |-> <<>>]
             ELSE before

NameOfKeyword == (For :> "For") @@ (<<"i","f">> :> "If")

\* C9: loadFromStream returns a tree only for properly nested fragments:
\* the stack always holds exactly the scoped nodes opened and not yet
\* closed, innermost last; a close fragment that meets an empty stack or
\* is rejected by the stack top, and a non-empty stack at the end of the
\* stream, abort the parse; only nodes with a scope are on the stack.
Thm_C9_ScopeStack ==
    LET os == OpenScopes(consumed)
    IN  /\ parseResult \in {"parsing", "tree"} =>
              /\ ~os.bad
              /\ Len(scopeStack) = Len(os.open)
              /\ \A i \in 1..Len(scopeStack) :
                    /\ scopeStack[i].name = NameOfKeyword[os.open[i]]
                    /\ scopeStack[i].hasScope
        /\ parseResult = "tree" => stream = <<>> /\ os.open = <<>>
        /\ parseResult = "syntax_error" =>
              \/ os.bad
              \/ stream = <<>> /\ os.open # <<>> /\ syntaxError = NameOfKeyword[os.open[1]]
              \/ /\ consumed # <<>>
                 /\ consumed[Len(consumed)].type = "OpenBlockFragment"
                 /\ \/ Keyword(consumed[Len(consumed)].clean) \notin DOMAIN NodeCreators
                    \/ ~ProcessFragmentResult(consumed[Len(consumed)].clean).ok

Wit_C9_ScopeStack ==
    /\ parseResult = "tree"
    /\ consumed = <<FFor, FIf, FEndIf, FEndFor>>


====
